---- MODULE Spec2Model ----
(***************************************************************************)
(* A model of Cache.py: BlobCache and its flavors (src/Cache/__init__1.py) *)
(* over the SQLite backend (src/Cache/storageBackends/sqlite.py) and the   *)
(* LMDB backend (src/Cache/storageBackends/lmdb.py).                       *)
(*                                                                         *)
(* Bytes, strings and dictionaries are sequences of numbers.  Python's     *)
(* None is the sequence None, a raised exception inside a value            *)
(* computation is the sequence Error.                                      *)
(***************************************************************************)
EXTENDS Integers, Sequences, FiniteSets, TLC

(***************************************************************************)
(* Bounds of the model.                                                    *)
(***************************************************************************)
MaxCommitOnNOps == 2
NumDicts == 1
\* The deepest nesting of scopes of the shared write transaction
\* (drop inside its scope deletes a row of typesMeta in a scope of its own).
MaxDepth == 2
\* The longest iterable given to populate.
MaxPairs == 2

None == <<-1>>
Error == <<-2>>

(***************************************************************************)
(* The collaborators of transformerz, as far as the cache uses them.       *)
(***************************************************************************)
\* utf8Transformer.unprocess: str -> bytes, code points below 2048.
RECURSIVE utf8Encode(_)
utf8Encode(s) ==
    IF s = <<>> THEN <<>>
    ELSE IF Head(s) < 128 THEN <<Head(s)>> \o utf8Encode(Tail(s))
         ELSE <<192 + (Head(s) \div 64), 128 + (Head(s) % 64)>> \o utf8Encode(Tail(s))

\* utf8Transformer.process: bytes -> str; Error on a malformed sequence.
RECURSIVE utf8Decode(_)
utf8Decode(b) ==
    IF b = <<>> THEN <<>>
    ELSE IF Head(b) < 128
         THEN LET rest == utf8Decode(Tail(b))
              IN  IF rest = Error THEN Error ELSE <<Head(b)>> \o rest
         ELSE IF Head(b) >= 192 /\ Head(b) < 224 /\ Len(b) >= 2 /\ b[2] >= 128 /\ b[2] < 192
              THEN LET rest == utf8Decode(SubSeq(b, 3, Len(b)))
                   IN  IF rest = Error THEN Error
                       ELSE <<(Head(b) - 192) * 64 + (b[2] - 128)>> \o rest
              ELSE Error

\* jsonSerializer.unprocess on a string of printable ASCII: the quoted string.
jsonDumps(s) == <<34>> \o s \o <<34>>

\* jsonSerializer.process: the string between the quotes; Error otherwise.
jsonLoads(t) ==
    IF t # Error /\ Len(t) >= 2 /\ t[1] = 34 /\ t[Len(t)] = 34
    THEN SubSeq(t, 2, Len(t) - 1)
    ELSE Error

\* The cache classes and their transformer stacks (CacheMeta concatenates
\* _appendTransformers onto the parent's stack).
Classes == {"BlobCache", "StringCache", "JSONCache"}

transformersId(cls) ==
    CASE cls = "BlobCache" -> <<>>
      [] cls = "StringCache" -> <<"utf8">>
      [] cls = "JSONCache" -> <<"utf8", "json">>

\* TransformerStack.unprocess: user value -> bytes.
transformersUnprocess(cls, v) ==
    CASE cls = "BlobCache" -> v
      [] cls = "StringCache" -> utf8Encode(v)
      [] cls = "JSONCache" -> utf8Encode(jsonDumps(v))

\* TransformerStack.process: bytes -> user value.
transformersProcess(cls, b) ==
    CASE cls = "BlobCache" -> b
      [] cls = "StringCache" -> utf8Decode(b)
      [] cls = "JSONCache" -> jsonLoads(utf8Decode(b))

\* Compressor factories by id; "none" stands for no factory.
Factories == {"none", "zstd", "lzma"}

Magic(f) == CASE f = "zstd" -> 40 [] f = "lzma" -> 253 [] OTHER -> 0

supportsDicts(c) == c # None /\ c[1] = Magic("zstd")

Dicts == {<<i>> : i \in 1..NumDicts}

\* compressorFactory(kwargs): a compressor is <<magic of the factory, id of
\* the dictionary>>, 0 for no dictionary.
BuildCompressor(f, dic) ==
    <<Magic(f), IF dic = None \/ dic = <<>> THEN 0 ELSE dic[1]>>

\* Compressor.unprocess: the frame names the format and the dictionary.
Compress(c, b) == IF b = Error THEN Error ELSE <<c[1], c[2]>> \o b

\* Compressor.process: a frame of another format or dictionary is an error.
Decompress(c, b) ==
    IF b # Error /\ Len(b) >= 2 /\ b[1] = c[1] /\ b[2] = c[2]
    THEN SubSeq(b, 3, Len(b))
    ELSE Error

(***************************************************************************)
(* The store: the metadata table and the data table.  A data row is        *)
(* <<key, val>>; the table is the set of its rows.                         *)
(***************************************************************************)
EmptyStore ==
    [meta |-> [exists |-> FALSE, compression |-> "", serializers |-> <<>>, dict |-> None],
     data |-> [exists |-> FALSE, keyType |-> "", rows |-> {}]]

\* select `val` from t where `key` = ? / tx.get: the value of the row, or None.
TableGetItem(rows, key) ==
    IF \E r \in rows : r[1] = key
    THEN (CHOOSE r \in rows : r[1] = key)[2]
    ELSE None

\* A variant whose condition is inverted.
TableDelItemOthers(rows, key) == {r \in rows : r[1] = key}

\* delete from t where `key` = ? / tx.delete: no error when the key is absent.
TableDelItem(rows, key) == {r \in rows : r[1] # key}

\* A variant that inserts without replacing the row of the key.
TableSetItemInsertOnly(rows, key, val) == rows \cup {<<key, val>>}

\* insert or replace into t (`key`, `val`) / tx.replace.
TableSetItem(rows, key, val) == {r \in rows : r[1] # key} \cup {<<key, val>>}

\* select count(*) from t / stat()["entries"].
TableLen(rows) == Cardinality(rows)

(***************************************************************************)
(* The backend object: kind ("sqlite" or "lmdb"), base ("path" or          *)
(* "handle"), disk (the committed store), db (the store as the connection  *)
(* or the write transaction sees it), inTx (a transaction is open),        *)
(* connOpen (the engine handle is open), refCount (of the LMDB             *)
(* SharedWriteTransaction).                                                *)
(***************************************************************************)
\* SharedWriteTransaction.__enter__
txEnter(b) ==
    [b EXCEPT !.db = IF b.refCount = 0 THEN b.disk ELSE @,
              !.inTx = IF b.refCount = 0 THEN TRUE ELSE @,
              !.refCount = @ + 1]

\* A variant that commits at the exit of every scope.
txExitAlwaysCommits(b) ==
    [b EXCEPT !.refCount = @ - 1,
              !.disk = b.db,
              !.inTx = IF b.refCount - 1 = 0 THEN FALSE ELSE @]

\* SharedWriteTransaction.__exit__: commits when the count returns to 0,
\* whatever exception is passing through.
txExit(b) ==
    [b EXCEPT !.refCount = @ - 1,
              !.disk = IF b.refCount - 1 = 0 THEN b.db ELSE @,
              !.inTx = IF b.refCount - 1 = 0 THEN FALSE ELSE @]

\* A statement that changes the store to newdb: sqlite3 opens a transaction
\* implicitly before DML; an LMDB table method runs in its own scope of the
\* shared write transaction.
Write(b, newdb) ==
    IF b.kind = "sqlite"
    THEN [b EXCEPT !.db = newdb, !.inTx = TRUE]
    ELSE txExit([txEnter(b) EXCEPT !.db = newdb])

\* What a read sees: the connection's view, or an LMDB read transaction.
ReadView(b) == IF b.kind = "sqlite" THEN b.db ELSE b.disk

\* What a write starts from: the connection's view, or the LMDB write
\* transaction's (a fresh one starts from the committed store).
WriteView(b) == IF b.kind = "sqlite" \/ b.refCount > 0 THEN b.db ELSE b.disk

\* SQLiteBackend.commit / LMDBBackend.commit (pass).
backendCommit(b) ==
    IF b.kind = "sqlite"
    THEN [b EXCEPT !.disk = b.db, !.inTx = FALSE]
    ELSE b

\* Table.create: executescript commits the open transaction, then runs the
\* DDL in autocommit mode; LMDB's create writes the key mapper and commits.
backendCreate(b, newdb) ==
    IF b.kind = "sqlite"
    THEN [b EXCEPT !.db = newdb, !.disk = newdb, !.inTx = FALSE]
    ELSE Write(b, newdb)

\* SQLiteBackend.__enter__ / LMDBBackend.__enter__
backendEnter(b) ==
    IF b.kind = "sqlite"
    THEN IF b.base = "path"
         THEN [b EXCEPT !.connOpen = TRUE, !.db = b.disk, !.inTx = FALSE]
         ELSE b
    ELSE [b EXCEPT !.connOpen = TRUE, !.db = b.disk, !.inTx = FALSE, !.refCount = 0]

\* SQLiteBackend.__exit__: commit and close only when built from a path.
\* LMDBBackend.__exit__: leaves the write transaction's scope, closes the
\* environment.
backendExit(b) ==
    IF b.kind = "sqlite"
    THEN IF b.base = "path"
         THEN [backendCommit(b) EXCEPT !.connOpen = FALSE]
         ELSE b
    ELSE [b EXCEPT !.refCount = @ - 1, !.connOpen = FALSE, !.db = b.disk, !.inTx = FALSE]

\* SQLiteBackend.beginTransaction ("begin;") / LMDBBackend.beginTransaction (pass).
\* SQLite refuses to begin a transaction inside a transaction.
beginTransactionFails(b) == b.kind = "sqlite" /\ b.inTx

beginTransaction(b) ==
    IF b.kind = "sqlite" THEN [b EXCEPT !.inTx = TRUE] ELSE b

(***************************************************************************)
(* The cache object s: cls (its class), keyType, compressorFactory,        *)
(* compressor, newCompressor, commitOnNOps, opsPending, backend, and       *)
(* raised: the exception the call in progress has raised ("" for none).    *)
(***************************************************************************)
\* The declared key types: str (the default), int, and typing.Any.
KeyTypes == {"str", "int", "any"}

\* BlobCache.__init__
NewCache(cls, backend, compressorFactory, commitOnNOps, keyType) ==
    [cls |-> cls, backend |-> backend, keyType |-> keyType,
     compressorFactory |-> compressorFactory, compressor |-> None,
     newCompressor |-> None, commitOnNOps |-> commitOnNOps, opsPending |-> 0,
     raised |-> ""]

Raise(s, ex) == [s EXCEPT !.raised = ex]

(***************************************************************************)
(* The choice of the backend.  A base is [type, name]: its Python type     *)
(* ("str", "Path", "sqlite3.Connection", "lmdb.Environment", any other)    *)
(* and, for a path, its characters.                                        *)
(***************************************************************************)
LastIndexOf(s, c) ==
    LET I == {i \in 1..Len(s) : s[i] = c}
    IN  IF I = {} THEN 0 ELSE CHOOSE i \in I : \A j \in I : j <= i

\* pathlib: PurePath.name, the final component.
PathName(p) == SubSeq(p, LastIndexOf(p, "/") + 1, Len(p))

\* pathlib: PurePath.suffix, from the last dot of the name, when that dot is
\* neither its first nor its last character.
PathSuffix(p) ==
    LET n == PathName(p)
        i == LastIndexOf(n, ".")
    IN  IF i > 1 /\ i < Len(n) THEN SubSeq(n, i, Len(n)) ELSE <<>>

\* str.lower, on the letters the paths use.
LowerChar(c) ==
    LET m == [S |-> "s", Q |-> "q", L |-> "l", I |-> "i", T |-> "t", E |-> "e",
              M |-> "m", D |-> "d", B |-> "b"]
    IN  IF c \in DOMAIN m THEN m[c] ELSE c

StrLower(s) == [i \in 1..Len(s) |-> LowerChar(s[i])]

\* StorageBackendMeta: FILE_EXTENSIONS and BASE_ARG_TYPES of the backends.
extensionsRegistry ==
    (<<"s", "q", "l", "i", "t", "e">> :> "sqlite") @@ (<<"m", "d", "b">> :> "lmdb")

typesRegistry ==
    ("sqlite3.Connection" :> "sqlite") @@ ("lmdb.Environment" :> "lmdb")

\* getBackendClass: the backend class by its kind, or "None" (a class is a
\* string here, and so is the None returned in its place).
getBackendClass(obj) ==
    IF obj.type \in {"str", "Path"}
    THEN LET ext == PathSuffix(obj.name)
         IN  IF ext # <<>> /\ StrLower(Tail(ext)) \in DOMAIN extensionsRegistry
             THEN extensionsRegistry[StrLower(Tail(ext))]
             ELSE "None"
    ELSE IF obj.type \in DOMAIN typesRegistry THEN typesRegistry[obj.type] ELSE "None"

\* SQLiteBackend.__init__ / LMDBBackend.__init__
NewBackend(kind, base) ==
    [kind |-> kind, base |-> IF base.type \in {"str", "Path"} THEN "path" ELSE "handle",
     connOpen |-> base.type \notin {"str", "Path"},
     db |-> EmptyStore, disk |-> EmptyStore, inTx |-> FALSE, refCount |-> 0]

\* BlobCache.__init__ with a base that is no _StorageBackend: with a
\* non-empty transformers stack it reads backendCtor.NATIVE_VALUE_TYPES
\* before it tests backendCtor.
BlobCacheInit(cls, base, compressorFactory, commitOnNOps, keyType) ==
    LET backendCtor == getBackendClass(base)
    IN  IF transformersId(cls) # <<>> /\ backendCtor = "None"
        THEN [cls |-> cls, raised |-> "AttributeError"]
        ELSE IF backendCtor # "None"
             THEN NewCache(cls, NewBackend(backendCtor, base), compressorFactory,
                           commitOnNOps, keyType)
             ELSE [cls |-> cls, raised |-> "ValueError"]

\* A variant that gives the key to the table as the caller gave it.
RawKeyAsGiven(s, key) == key

\* The key as the data table holds it (keyType is typing.Any: through the stack).
RawKey(s, key) ==
    IF s.keyType = "any" THEN transformersUnprocess(s.cls, key) ELSE key

\* A variant whose period is one operation longer.
willCommitLate(s) == s.opsPending # 0 /\ (s.opsPending % (s.commitOnNOps + 1) = 0)

\* BlobCache.willCommit
willCommit(s) == s.opsPending # 0 /\ (s.opsPending % s.commitOnNOps = 0)

\* BlobCache.commit
commit(s) == [s EXCEPT !.backend = backendCommit(@), !.opsPending = 0]

\* BlobCache.opCommit
opCommit(s) ==
    IF willCommit(s) THEN commit(s) ELSE [s EXCEPT !.opsPending = @ + 1]

\* BlobCache.__len__
len(s) == TableLen(ReadView(s.backend).data.rows)

\* BlobCache.__getitem__: None for an absent row and for an empty stored value.
getitem(s, key) ==
    LET val == TableGetItem(ReadView(s.backend).data.rows, RawKey(s, key))
    IN  IF val = None \/ val = <<>> THEN None
        ELSE LET v1 == IF s.compressor # None THEN Decompress(s.compressor, val) ELSE val
             IN  IF v1 = Error THEN Error ELSE transformersProcess(s.cls, v1)

\* BlobCache.__contains__
contains(s, key) == getitem(s, key) # None

\* BlobCache.__iter__ / keys: how many times each user-level key is yielded.
keys(s) ==
    LET rows == ReadView(s.backend).data.rows
        dec(k) == IF s.keyType = "any" THEN transformersProcess(s.cls, k) ELSE k
    IN  [k \in {dec(r[1]) : r \in rows} |-> Cardinality({r \in rows : dec(r[1]) = k})]

\* BlobCache.values: the decoded value of every row (a set of <<raw key, value>>,
\* so that equal values of two rows stay two).
values(s) ==
    LET rows == ReadView(s.backend).data.rows
        dec(v) == LET v1 == IF s.compressor # None THEN Decompress(s.compressor, v) ELSE v
                  IN  IF v1 = Error THEN Error ELSE transformersProcess(s.cls, v1)
    IN  {<<r[1], dec(r[2])>> : r \in rows}

\* A variant that counts the operation and leaves the row.
delitemKeepsRow(s, key) == opCommit(s)

\* A variant that counts the operation only when it removed a row.
delitemCountsPresentOnly(s, key) ==
    LET b == s.backend
        st == WriteView(b)
        newdb == [st EXCEPT !.data.rows = TableDelItem(@, RawKey(s, key))]
        s1 == [s EXCEPT !.backend = Write(b, newdb)]
    IN  IF newdb = st THEN s1 ELSE opCommit(s1)

\* BlobCache.__delitem__
delitem(s, key) ==
    LET b == s.backend
        st == WriteView(b)
        newdb == [st EXCEPT !.data.rows = TableDelItem(@, RawKey(s, key))]
    IN  opCommit([s EXCEPT !.backend = Write(b, newdb)])

\* A variant without the test for None: None goes through the stack and is stored.
setitemStoresNone(s, key, val) ==
    LET b == s.backend
        st == WriteView(b)
        v0 == transformersUnprocess(s.cls, val)
        v == IF s.compressor # None THEN Compress(s.compressor, v0) ELSE v0
        newdb == [st EXCEPT !.data.rows = TableSetItem(@, RawKey(s, key), v)]
    IN  opCommit([s EXCEPT !.backend = Write(b, newdb)])

\* BlobCache.__setitem__
setitem(s, key, val) ==
    IF val = None THEN delitem(s, key)
    ELSE LET b == s.backend
             st == WriteView(b)
             v0 == transformersUnprocess(s.cls, val)
             v == IF s.compressor # None THEN Compress(s.compressor, v0) ELSE v0
             newdb == [st EXCEPT !.data.rows = TableSetItem(@, RawKey(s, key), v)]
         IN  opCommit([s EXCEPT !.backend = Write(b, newdb)])

\* BlobCache.recreateCompressorWithArgs
recreateCompressorWithArgs(s, dic) ==
    IF s.compressorFactory # "none"
    THEN [s EXCEPT !.compressor = BuildCompressor(s.compressorFactory, dic)]
    ELSE s

\* BlobCache.compressionDictionary (getter): metadata["dict"]
compressionDictionary(s) == ReadView(s.backend).meta.dict

\* A variant that compresses the stored bytes again without reading them
\* with the old compressor.
recompressorFuncNoDecompress(s, v) ==
    IF s.newCompressor = None \/ s.compressor = None THEN Error
    ELSE Compress(s.newCompressor, v)

\* BlobCache._recompressorFunc
recompressorFunc(s, v) ==
    IF s.newCompressor = None \/ s.compressor = None THEN Error
    ELSE Compress(s.newCompressor, Decompress(s.compressor, v))

\* The order of byte strings, which is the order of an LMDB cursor.
RECURSIVE SeqLess(_, _)
SeqLess(a, b) ==
    IF a = <<>> THEN b # <<>>
    ELSE IF b = <<>> THEN FALSE
         ELSE IF Head(a) # Head(b) THEN Head(a) < Head(b)
              ELSE SeqLess(Tail(a), Tail(b))

RECURSIVE CursorOrder(_)
CursorOrder(rows) ==
    IF rows = {} THEN <<>>
    ELSE LET m == CHOOSE r \in rows : \A q \in rows : ~SeqLess(q[1], r[1])
         IN  <<m>> \o CursorOrder(rows \ {m})

\* The first record at which the recompress function raises, 0 for none:
\* failAt is the record at which the environment makes it fail (0: nowhere),
\* and it raises by itself on a value the old compressor cannot read.
FirstFailure(s, order, failAt) ==
    LET bad == {i \in 1..Len(order) : i = failAt \/ recompressorFunc(s, order[i][2]) = Error}
    IN  IF bad = {} THEN 0 ELSE CHOOSE i \in bad : \A j \in bad : i <= j

\* SQLiteBackend.Table.applyToValues: one REPLACE INTO ... SELECT statement,
\* which changes nothing when the function raises.
\* LMDBBackend._Table.applyToValues: a cursor walk inside a scope of the shared
\* write transaction, whose exit commits what was replaced so far.
applyToValues(s, failAt) ==
    LET b == s.backend
        st == WriteView(b)
        order == CursorOrder(st.data.rows)
        ff == FirstFailure(s, order, failAt)
        done == IF ff = 0 THEN Len(order) ELSE ff - 1
        newrows == {<<order[i][1], IF i <= done THEN recompressorFunc(s, order[i][2])
                                               ELSE order[i][2]>> : i \in 1..Len(order)}
        newdb == [st EXCEPT !.data.rows = newrows]
    IN  IF b.kind = "sqlite"
        THEN IF ff = 0 THEN [s EXCEPT !.backend = Write(b, newdb)]
             ELSE Raise(s, "OperationalError")
        ELSE Raise([s EXCEPT !.backend = Write(b, newdb)],
                   IF ff = 0 THEN "" ELSE "RecompressError")

\* metadata["dict"] = newDict
setDict(s, newDict) ==
    [s EXCEPT !.backend = Write(@, [WriteView(@) EXCEPT !.meta.dict = newDict])]

\* A variant that writes the dict record before the re-encoding.
swapDictionaryDictFirst(s, newDict, failAt) ==
    IF beginTransactionFails(s.backend) THEN Raise(s, "OperationalError")
    ELSE LET s1 == [s EXCEPT !.backend = beginTransaction(@)]
         IN  IF s1.compressorFactory = "none" THEN Raise(s1, "TypeError")
             ELSE LET s2 == setDict([s1 EXCEPT !.newCompressor =
                                          BuildCompressor(s1.compressorFactory, newDict)],
                                    newDict)
                      s3 == applyToValues(s2, failAt)
                      s4 == [s3 EXCEPT !.compressor = s3.newCompressor,
                                       !.newCompressor = None]
                      s6 == [s4 EXCEPT !.compressor =
                                          BuildCompressor(s4.compressorFactory, newDict)]
                  IN  IF s3.raised # ""
                      THEN [s3 EXCEPT !.backend = IF s3.raised = "OperationalError"
                                                  THEN s2.backend ELSE @]
                      ELSE commit(s6)

\* BlobCache.applyCompressionDictionary after its early return: the explicit
\* transaction, the new compressor, the re-encoding, the swap, the metadata
\* record and the commit.
swapDictionary(s, newDict, failAt) ==
    IF beginTransactionFails(s.backend) THEN Raise(s, "OperationalError")
    ELSE LET s1 == [s EXCEPT !.backend = beginTransaction(@)]
         IN  IF s1.compressorFactory = "none" THEN Raise(s1, "TypeError")
             ELSE LET s2 == [s1 EXCEPT !.newCompressor =
                                          BuildCompressor(s1.compressorFactory, newDict)]
                      s3 == applyToValues(s2, failAt)
                      s4 == [s3 EXCEPT !.compressor = s3.newCompressor,
                                       !.newCompressor = None]
                      s5 == setDict(s4, newDict)
                      s6 == [s5 EXCEPT !.compressor =
                                          BuildCompressor(s5.compressorFactory, newDict)]
                  IN  IF s3.raised # "" THEN s3 ELSE commit(s6)

\* A variant that does not compare newDict with the dictionary in metadata.
applyCompressionDictionaryUnchecked(s, newDict, failAt) ==
    swapDictionary(s, newDict, failAt)

\* BlobCache.applyCompressionDictionary
applyCompressionDictionary(s, newDict, failAt) ==
    IF compressionDictionary(s) = newDict THEN s
    ELSE swapDictionary(s, newDict, failAt)

\* BlobCache.decompressedValuesBytes, as the trainer consumes it.
decompressedValuesBytes(s) ==
    {<<r[1], IF s.compressor # None THEN Decompress(s.compressor, r[2]) ELSE r[2]>> :
        r \in ReadView(s.backend).data.rows}

\* A variant that commits before it tests the compressor.
optimizeCompressionCommitsFirst(s, newDict, failAt) ==
    LET s1 == commit(s)
        samples == decompressedValuesBytes(s1)
    IN  IF s1.compressor = None \/ ~supportsDicts(s1.compressor)
        THEN Raise(s1, "NotImplementedError")
        ELSE IF samples = {} \/ \E x \in samples : x[2] = Error
             THEN Raise(s1, "TrainError")
             ELSE applyCompressionDictionary(s1, newDict, failAt)

\* BlobCache.optimizeCompression; newDict is what compute_optimal_dict returns,
\* which needs at least one sample.
optimizeCompression(s, newDict, failAt) ==
    IF s.compressor = None \/ ~supportsDicts(s.compressor)
    THEN Raise(s, "NotImplementedError")
    ELSE LET s1 == commit(s)
             samples == decompressedValuesBytes(s1)
         IN  IF samples = {} \/ \E x \in samples : x[2] = Error
             THEN Raise(s1, "TrainError")
             ELSE applyCompressionDictionary(s1, newDict, failAt)

\* A variant that creates the data table with str keys whatever was declared.
createDataTableStr(s) ==
    LET b == s.backend
        old == WriteView(b).data
        rows == IF b.kind = "sqlite" THEN {} ELSE old.rows
        b1 == backendCreate(b, [WriteView(b) EXCEPT
                                   !.data = [exists |-> TRUE, keyType |-> "str", rows |-> rows]])
        s1 == [s EXCEPT !.backend = b1]
    IN  IF b.kind = "sqlite" /\ old.exists THEN Raise(s, "OperationalError")
        ELSE IF s1.opsPending # 0 THEN commit(s1) ELSE s1

\* BlobCache.createDataTable: Table.create, then optimize().  SQLite's create
\* table makes an empty table and fails when the table exists; LMDB's create
\* records the key mapper and opens the sub-database with what it holds.
createDataTable(s) ==
    LET b == s.backend
        old == WriteView(b).data
        kt == IF s.keyType # "any" THEN s.keyType ELSE "bytes"
        rows == IF b.kind = "sqlite" THEN {} ELSE old.rows
        b1 == backendCreate(b, [WriteView(b) EXCEPT
                                   !.data = [exists |-> TRUE, keyType |-> kt, rows |-> rows]])
        s1 == [s EXCEPT !.backend = b1]
    IN  IF b.kind = "sqlite" /\ old.exists THEN Raise(s, "OperationalError")
        ELSE IF s1.opsPending # 0 THEN commit(s1) ELSE s1

\* A variant that drops nothing.
backendDropNothing(b) == b

\* SQLiteBackend.Table.drop: drop table, then commit.
\* LMDBBackend._Table.drop: empties the sub-database (delete=False) and deletes
\* the key self.name of typesMeta, which is not the key the mapper is kept
\* under ("key-" + name): the key mapper record stays.
backendDrop(b) ==
    IF b.kind = "sqlite"
    THEN backendCommit([b EXCEPT !.db.data = [exists |-> FALSE, keyType |-> "", rows |-> {}]])
    ELSE Write(b, [WriteView(b) EXCEPT !.data.rows = {}])

\* BlobCache.empty
empty(s) ==
    LET s1 == createDataTable([s EXCEPT !.backend = backendDrop(@)])
    IN  IF s1.raised # "" THEN s1 ELSE commit(s1)

\* A variant that accepts every persisted serializers list.
serializersMatchAlways(s, st) == TRUE

\* BlobCache.__enter__, attach path: transformersTemp == transformers.id
serializersMatch(s, st) == st.meta.serializers = transformersId(s.cls)

\* A variant that accepts every stored key type.
keyTypeMatchesAlways(s, st) == TRUE

\* BlobCache.__enter__, attach path: the stored key type is the declared one,
\* or the declared one is typing.Any and the stored one bytes.
keyTypeMatches(s, st) ==
    \/ st.data.keyType = s.keyType
    \/ (s.keyType = "any" /\ st.data.keyType = "bytes")

\* BlobCache.__enter__
enter(s) ==
    LET b0 == backendEnter(s.backend)
        st == ReadView(b0)
        s0 == [s EXCEPT !.backend = b0]
    IN  IF ~st.meta.exists
        THEN LET b1 == backendCreate(b0, [WriteView(b0) EXCEPT !.meta.exists = TRUE])
                 b2 == Write(b1, [WriteView(b1) EXCEPT !.meta.compression = s.compressorFactory])
                 b3 == Write(b2, [WriteView(b2) EXCEPT !.meta.serializers = transformersId(s.cls)])
                 s4 == createDataTable([s EXCEPT !.backend = b3])
             IN  recreateCompressorWithArgs(commit(s4), None)
        ELSE IF ~serializersMatch(s, st)
             THEN Raise(s0, "ValueError: transformers")
             ELSE IF ~keyTypeMatches(s, st)
                  THEN Raise(s0, "ValueError: keyType")
                  ELSE LET s1 == [s0 EXCEPT !.compressorFactory = st.meta.compression]
                       IN  IF st.meta.dict # None
                           THEN Raise(s1, "TypeError")
                           ELSE recreateCompressorWithArgs(s1, None)

\* BlobCache.__exit__
exit(s) == [s EXCEPT !.backend = backendExit(@)]

\* What the backend's __exit__ raises.  SQLiteBackend built from a path:
\* self.commit() is self.db.commit(), an AttributeError when db is None (not
\* entered, or closed before), and whatever the engine raises when it
\* refuses the commit (commitFails).  Built from a handle it does nothing.
\* LMDBBackend skips what is None already and commits nothing.
backendExitRaises(b, commitFails) ==
    IF b.kind = "sqlite" /\ b.base = "path"
    THEN IF ~b.connOpen THEN "AttributeError"
         ELSE IF commitFails THEN "OperationalError" ELSE ""
    ELSE ""

\* BlobCache.__exit__ with the errors of the backend: nothing catches them.
\* An LMDB backend closed before has nothing left to leave or close.
exitRaising(s, commitFails) ==
    LET ex == backendExitRaises(s.backend, commitFails)
    IN  IF ex # "" THEN Raise(s, ex)
        ELSE IF s.backend.kind = "lmdb" /\ ~s.backend.connOpen THEN s
        ELSE exit(s)

\* BlobCache.__del__: __exit__ inside try, the exception turned into a
\* warning.
del(s, commitFails) ==
    LET r == exitRaising(Raise(s, ""), commitFails)
    IN  [cache |-> Raise(r, ""), warned |-> r.raised # ""]

\* SQLiteBackend.vacuum ("reindex;" then "vacuum;": SQLite refuses to vacuum
\* inside a transaction) / LMDBBackend.vacuum (pass).
backendVacuumFails(b) == b.kind = "sqlite" /\ b.inTx

\* A variant that does not commit first.
vacuumNoCommit(s) ==
    IF backendVacuumFails(s.backend) THEN Raise(s, "OperationalError") ELSE s

\* BlobCache.vacuum
vacuum(s) ==
    LET s1 == IF s.opsPending # 0 THEN commit(s) ELSE s
    IN  IF backendVacuumFails(s1.backend) THEN Raise(s1, "OperationalError") ELSE s1

\* BlobCache.optimize: "PRAGMA optimize;" / pass write to no table of the cache.
optimize(s) == IF s.opsPending # 0 THEN commit(s) ELSE s

\* A variant that leaves out the pairs whose value is None.
RECURSIVE populateFromSkipNone(_, _, _, _)
populateFromSkipNone(s, target, i, r) ==
    IF i > Len(target) THEN [cache |-> s, reports |-> r]
    ELSE IF target[i][2] = None THEN populateFromSkipNone(s, target, i + 1, r)
    ELSE populateFromSkipNone(setitem(s, target[i][1], target[i][2]), target, i + 1,
                              Append(r, [key |-> target[i][1], puts |-> i]))

\* The for loop of populate from the i-th pair on: self[k] = v, then
\* r.report(k).  r is what the progress reporter was told: the key, and how
\* many pairs had been assigned by then.
RECURSIVE populateFrom(_, _, _, _)
populateFrom(s, target, i, r) ==
    IF i > Len(target) THEN [cache |-> s, reports |-> r]
    ELSE populateFrom(setitem(s, target[i][1], target[i][2]), target, i + 1,
                      Append(r, [key |-> target[i][1], puts |-> i]))

\* BlobCache.populate, with the default reporter or a reporter class.
populate(s, target) == populateFrom(s, target, 1, <<>>)

(***************************************************************************)
(* The state machine.  cache is the cache object in use, status its        *)
(* position in its life ("new", "open", "failed": __enter__ raised,        *)
(* "closed").  expect and lastOp record what the caller asked for: expect  *)
(* is the mapping the calls so far describe (Deleted: a key removed by del *)
(* while present), lastOp the last call and the opsPending it found,       *)
(* durable the mappings described at the last commit the calls made        *)
(* (commit(), a commit by opCommit, the scope exit) and after each         *)
(* mutating call since.                                                    *)
(***************************************************************************)
VARIABLES cache, status, expect, lastOp, durable

vars == <<cache, status, expect, lastOp, durable>>

Deleted == <<-3>>

\* The keys "a" and "b" of the test routine.
Keys == {<<97>>, <<98>>}

UserValues(cls) ==
    IF cls = "StringCache" THEN {<<>>, <<1041>>} ELSE {<<>>, <<97>>}

\* The backends and bases a cache is built on.
Bases == {<<"sqlite", "path">>, <<"sqlite", "handle">>, <<"lmdb", "path">>}

\* The declared key types used with a class (keyType=typing.Any is used with
\* the serializing classes).
\* A mapping of expect as a reader sees it: a removed key is an absent key.
Norm(e) == [k \in DOMAIN e |-> IF e[k] = Deleted THEN None ELSE e[k]]

KeyTypesOf(cls) == IF cls = "JSONCache" THEN {"str", "any"} ELSE {"str"}

Init ==
    /\ \E cls \in Classes, kb \in Bases, f \in Factories, n \in 1..MaxCommitOnNOps :
         \E kt \in KeyTypesOf(cls) :
          cache = NewCache(cls,
                           [kind |-> kb[1], base |-> kb[2], connOpen |-> kb[2] = "handle",
                            db |-> EmptyStore, disk |-> EmptyStore, inTx |-> FALSE,
                            refCount |-> 0],
                           f, n, kt)
    /\ status = "new"
    /\ expect = [k \in Keys |-> None]
    /\ lastOp = [op |-> "new", pre |-> 0]
    /\ durable = {[k \in Keys |-> None]}

\* The store as a cache object opening it finds it.
StoreAtOpen(b) == ReadView(backendEnter(b))

\* with cls(base, f, keyType=kt) as c: a fresh cache object on the same store.
\* lastOp keeps the factory the object was constructed with.
OpenAsStep(cls, f, kt) ==
    /\ status \in {"new", "closed"}
    /\ LET fresh == NewCache(cls, cache.backend, f, cache.commitOnNOps, kt)
           s == enter(fresh)
       IN  /\ cache' = s
           /\ status' = IF s.raised = "" THEN "open" ELSE "failed"
           /\ lastOp' = [op |-> IF ReadView(backendEnter(cache.backend)).meta.exists
                                THEN "attach" ELSE "init",
                         pre |-> 0, factory |-> f]
    /\ UNCHANGED expect

\* The end of the with block, or the destructor of a cache whose __enter__ raised.
CloseStep ==
    /\ status \in {"open", "failed"}
    /\ cache' = exit(Raise(cache, ""))
    /\ status' = "closed"
    /\ lastOp' = [op |-> "exit", pre |-> cache.opsPending]
    /\ UNCHANGED expect

\* The with block left by an exception (one a call of the cache raised, or
\* one of the caller's code): __exit__ gets it and lets it pass.
CloseOnErrorStep ==
    /\ status = "open"
    /\ cache' = exit(Raise(cache, IF cache.raised # "" THEN cache.raised ELSE "Exception"))
    /\ status' = "closed"
    /\ lastOp' = [op |-> "exitOnError", pre |-> cache.opsPending]
    /\ UNCHANGED expect

\* c[k] = v, v None included.
PutStep(k, v) ==
    /\ status = "open"
    /\ cache' = setitem(Raise(cache, ""), k, v)
    /\ expect' = [expect EXCEPT ![k] = v]
    /\ lastOp' = [op |-> IF v = None THEN "putNone" ELSE "put", pre |-> cache.opsPending]
    /\ UNCHANGED status

\* del c[k]
DeleteStep(k) ==
    /\ status = "open"
    /\ cache' = delitem(Raise(cache, ""), k)
    /\ expect' = [expect EXCEPT ![k] = IF @ \in {None, Deleted} THEN @ ELSE Deleted]
    /\ lastOp' = [op |-> "delete", pre |-> cache.opsPending]
    /\ UNCHANGED status

\* c.commit()
CommitStep ==
    /\ status = "open"
    /\ cache' = commit(Raise(cache, ""))
    /\ lastOp' = [op |-> "commit", pre |-> cache.opsPending]
    /\ UNCHANGED <<status, expect>>

\* c.empty(); lastOp keeps the len it found.
EmptyStep ==
    /\ status = "open"
    /\ cache' = empty(Raise(cache, ""))
    /\ expect' = [k \in Keys |-> None]
    /\ lastOp' = [op |-> "empty", pre |-> cache.opsPending, len |-> len(cache)]
    /\ UNCHANGED status

\* c.applyCompressionDictionary(d)
ApplyCompressionDictionaryStep(d, failAt) ==
    /\ status = "open"
    /\ failAt <= Cardinality(WriteView(cache.backend).data.rows)
    /\ cache' = applyCompressionDictionary(Raise(cache, ""), d, failAt)
    /\ lastOp' = [op |-> IF compressionDictionary(cache) = d THEN "applySame" ELSE "apply",
                  pre |-> cache.opsPending]
    /\ UNCHANGED <<status, expect>>

\* c.optimizeCompression()
OptimizeCompressionStep(d, failAt) ==
    /\ status = "open"
    /\ failAt <= Cardinality(WriteView(cache.backend).data.rows)
    /\ cache' = optimizeCompression(Raise(cache, ""), d, failAt)
    /\ lastOp' = [op |-> "optimize", pre |-> cache.opsPending]
    /\ UNCHANGED <<status, expect>>

(***************************************************************************)
(* The calls as the actions of the specifications that keep durable as it  *)
(* is.                                                                     *)
(***************************************************************************)
OpenAs(cls, f, kt) == OpenAsStep(cls, f, kt) /\ UNCHANGED durable

\* The same class and arguments as the cache object before.
Open == OpenAs(cache.cls, cache.compressorFactory, cache.keyType)

Close == CloseStep /\ UNCHANGED durable

Put(k, v) == PutStep(k, v) /\ UNCHANGED durable

Delete(k) == DeleteStep(k) /\ UNCHANGED durable

Commit == CommitStep /\ UNCHANGED durable

Empty == EmptyStep /\ UNCHANGED durable

ApplyCompressionDictionary(d, failAt) ==
    ApplyCompressionDictionaryStep(d, failAt) /\ UNCHANGED durable

OptimizeCompression(d, failAt) ==
    OptimizeCompressionStep(d, failAt) /\ UNCHANGED durable

Next ==
    \/ Open
    \/ Close
    \/ \E k \in Keys : \E v \in UserValues(cache.cls) \cup {None} : Put(k, v)
    \/ \E k \in Keys : Delete(k)
    \/ Commit
    \/ Empty
    \/ \E d \in Dicts : \E failAt \in 0..Cardinality(Keys) : ApplyCompressionDictionary(d, failAt)
    \/ \E d \in Dicts : \E failAt \in 0..Cardinality(Keys) : OptimizeCompression(d, failAt)

Spec == Init /\ [][Next]_vars

(***************************************************************************)
(* The store opened again by any class, factory and declared key type.     *)
(***************************************************************************)
InitAttach ==
    /\ \E cls \in Classes, kb \in Bases, f \in Factories, kt \in KeyTypes :
          cache = NewCache(cls,
                           [kind |-> kb[1], base |-> kb[2], connOpen |-> kb[2] = "handle",
                            db |-> EmptyStore, disk |-> EmptyStore, inTx |-> FALSE,
                            refCount |-> 0],
                           f, 1, kt)
    /\ status = "new"
    /\ expect = [k \in Keys |-> None]
    /\ lastOp = [op |-> "new", pre |-> 0]
    /\ durable = {[k \in Keys |-> None]}

NextAttach ==
    \/ \E cls \in Classes, f \in Factories, kt \in KeyTypes : OpenAs(cls, f, kt)
    \/ Close
    \/ \E k \in Keys : \E v \in UserValues(cache.cls) : Put(k, v)
    \/ \E d \in Dicts : ApplyCompressionDictionary(d, 0)

SpecAttach == InitAttach /\ [][NextAttach]_vars

(***************************************************************************)
(* The construction.  cache starts as the arguments of the constructor.    *)
(* Each base comes with what its extension or type is to select.           *)
(***************************************************************************)
BaseArgs ==
    {[type |-> "Path", name |-> <<"c", ".", "s", "q", "l", "i", "t", "e">>, selects |-> "sqlite"],
     [type |-> "str", name |-> <<"d", "/", "c", ".", "S", "Q", "L", "i", "t", "e">>, selects |-> "sqlite"],
     [type |-> "Path", name |-> <<"c", ".", "m", "d", "b">>, selects |-> "lmdb"],
     [type |-> "str", name |-> <<"c", ".", "b", ".", "M", "d", "B">>, selects |-> "lmdb"],
     [type |-> "sqlite3.Connection", name |-> <<>>, selects |-> "sqlite"],
     [type |-> "lmdb.Environment", name |-> <<>>, selects |-> "lmdb"],
     [type |-> "Path", name |-> <<"c", ".", "d", "b">>, selects |-> "none"],
     [type |-> "str", name |-> <<"c">>, selects |-> "none"],
     [type |-> "Path", name |-> <<"c", ".", "m", "d", "b", "/", "c">>, selects |-> "none"],
     [type |-> "str", name |-> <<"c", ".", "s", "q", "l", "i", "t", "e", ".", "b">>, selects |-> "none"],
     [type |-> "int", name |-> <<>>, selects |-> "none"]}

InitCtor ==
    /\ \E cls \in Classes, base \in BaseArgs, f \in Factories :
          cache = [cls |-> cls, base |-> base, compressorFactory |-> f,
                   commitOnNOps |-> 1, keyType |-> "str"]
    /\ status = "unbuilt"
    /\ expect = [k \in Keys |-> None]
    /\ lastOp = [op |-> "none", pre |-> 0]
    /\ durable = {[k \in Keys |-> None]}

\* cls(base, compressorFactory, commitOnNOps, keyType); lastOp keeps the
\* class and the base.
Construct ==
    /\ status = "unbuilt"
    /\ cache' = BlobCacheInit(cache.cls, [type |-> cache.base.type, name |-> cache.base.name],
                              cache.compressorFactory, cache.commitOnNOps, cache.keyType)
    /\ status' = IF cache'.raised = "" THEN "new" ELSE "badbase"
    /\ lastOp' = [op |-> "construct", pre |-> 0, cls |-> cache.cls, base |-> cache.base]
    /\ UNCHANGED <<expect, durable>>

NextCtor ==
    \/ Construct
    \/ Open
    \/ Close
    \/ \E k \in Keys : \E v \in UserValues(cache.cls) : Put(k, v)

SpecCtor == InitCtor /\ [][NextCtor]_vars

(***************************************************************************)
(* The calls with durable kept: a commit (commit(), the commit of          *)
(* opCommit, the commits inside applyCompressionDictionary,                *)
(* optimizeCompression and the initialization, the scope exit) leaves the  *)
(* mapping described so far, a mutating call adds the mapping it gives.    *)
(***************************************************************************)
OpenD ==
    /\ OpenAsStep(cache.cls, cache.compressorFactory, cache.keyType)
    /\ durable' = IF StoreAtOpen(cache.backend).meta.exists THEN durable ELSE {Norm(expect)}

CloseD == CloseStep /\ durable' = {Norm(expect)}

PutD(k, v) ==
    /\ PutStep(k, v)
    /\ durable' = IF willCommit(cache) THEN {Norm(expect')} ELSE durable \cup {Norm(expect')}

DeleteD(k) ==
    /\ DeleteStep(k)
    /\ durable' = IF willCommit(cache) THEN {Norm(expect')} ELSE durable \cup {Norm(expect')}

CloseOnErrorD == CloseOnErrorStep /\ durable' = {Norm(expect)}

CommitD == CommitStep /\ durable' = {Norm(expect)}

ApplyCompressionDictionaryD(d, failAt) ==
    /\ ApplyCompressionDictionaryStep(d, failAt)
    /\ durable' = IF compressionDictionary(cache) # d /\ cache'.raised = ""
                  THEN {Norm(expect)} ELSE durable

OptimizeCompressionD(d, failAt) ==
    /\ OptimizeCompressionStep(d, failAt)
    /\ durable' = IF cache'.raised = "NotImplementedError" THEN durable ELSE {Norm(expect)}

NextDurable ==
    \/ OpenD
    \/ CloseD
    \/ CloseOnErrorD
    \/ \E k \in Keys : \E v \in UserValues(cache.cls) \cup {None} : PutD(k, v)
    \/ \E k \in Keys : DeleteD(k)
    \/ CommitD
    \/ \E d \in Dicts : \E failAt \in 0..Cardinality(Keys) : ApplyCompressionDictionaryD(d, failAt)
    \/ \E d \in Dicts : \E failAt \in 0..Cardinality(Keys) : OptimizeCompressionD(d, failAt)

SpecDurable == Init /\ [][NextDurable]_vars

(***************************************************************************)
(* The maintenance calls.                                                  *)
(***************************************************************************)
\* c.vacuum()
Vacuum ==
    /\ status = "open"
    /\ cache' = vacuum(Raise(cache, ""))
    /\ lastOp' = [op |-> "vacuum", pre |-> cache.opsPending]
    /\ UNCHANGED <<status, expect, durable>>

\* c.optimize()
Optimize ==
    /\ status = "open"
    /\ cache' = optimize(Raise(cache, ""))
    /\ lastOp' = [op |-> "optimizeBackend", pre |-> cache.opsPending]
    /\ UNCHANGED <<status, expect, durable>>

NextMaint ==
    \/ Open
    \/ Close
    \/ \E k \in Keys : \E v \in UserValues(cache.cls) \cup {None} : Put(k, v)
    \/ \E k \in Keys : Delete(k)
    \/ Commit
    \/ Vacuum
    \/ Optimize

SpecMaint == Init /\ [][NextMaint]_vars

(***************************************************************************)
(* The scopes of the shared write transaction of an LMDB backend, step by  *)
(* step: lastOp keeps the step and the count it found.                     *)
(***************************************************************************)
InitTx ==
    /\ \E cls \in Classes :
          cache = NewCache(cls,
                           [kind |-> "lmdb", base |-> "path", connOpen |-> FALSE,
                            db |-> EmptyStore, disk |-> EmptyStore, inTx |-> FALSE,
                            refCount |-> 0],
                           "none", 1, "str")
    /\ status = "new"
    /\ expect = [k \in Keys |-> None]
    /\ lastOp = [op |-> "new", pre |-> 0]
    /\ durable = {[k \in Keys |-> None]}

\* LMDBBackend.__enter__
TxOpen ==
    /\ status \in {"new", "closed"}
    /\ cache' = [cache EXCEPT !.backend = backendEnter(@)]
    /\ status' = "open"
    /\ lastOp' = [op |-> "txOpen", pre |-> cache.backend.refCount]
    /\ UNCHANGED <<expect, durable>>

\* with self.parent.currentWriteTx as tx:
TxEnter ==
    /\ status = "open"
    /\ cache.backend.refCount < MaxDepth
    /\ cache' = [cache EXCEPT !.backend = txEnter(@)]
    /\ lastOp' = [op |-> "txEnter", pre |-> cache.backend.refCount]
    /\ UNCHANGED <<status, expect, durable>>

\* tx.replace(keyBin, value, db=self.table) inside a scope.
TxReplace(k, v) ==
    /\ status = "open"
    /\ cache.backend.refCount > 0
    /\ cache' = [cache EXCEPT !.backend.db.data.rows = TableSetItem(@, k, v)]
    /\ lastOp' = [op |-> "txReplace", pre |-> cache.backend.refCount]
    /\ UNCHANGED <<status, expect, durable>>

\* tx.delete(keyBin, db=self.table) inside a scope.
TxDelete(k) ==
    /\ status = "open"
    /\ cache.backend.refCount > 0
    /\ cache' = [cache EXCEPT !.backend.db.data.rows = TableDelItem(@, k)]
    /\ lastOp' = [op |-> "txDelete", pre |-> cache.backend.refCount]
    /\ UNCHANGED <<status, expect, durable>>

\* The end of a with block of the shared write transaction.
TxExit ==
    /\ status = "open"
    /\ cache.backend.refCount > 0
    /\ cache' = [cache EXCEPT !.backend = txExit(@)]
    /\ lastOp' = [op |-> "txExit", pre |-> cache.backend.refCount]
    /\ UNCHANGED <<status, expect, durable>>

\* LMDBBackend.__exit__, every scope left before.
TxClose ==
    /\ status = "open"
    /\ cache.backend.refCount = 0
    /\ cache' = [cache EXCEPT !.backend = backendExit(@)]
    /\ status' = "closed"
    /\ lastOp' = [op |-> "txClose", pre |-> cache.backend.refCount]
    /\ UNCHANGED <<expect, durable>>

NextTx ==
    \/ TxOpen
    \/ TxEnter
    \/ \E k \in Keys : \E v \in UserValues(cache.cls) : TxReplace(k, v)
    \/ \E k \in Keys : TxDelete(k)
    \/ TxExit
    \/ TxClose

SpecTx == InitTx /\ [][NextTx]_vars

(***************************************************************************)
(* Bulk ingest: lastOp keeps the pairs given and what the reporter was    *)
(* told.                                                                   *)
(***************************************************************************)
\* The iterables of populate: up to MaxPairs pairs (key, value or None), the
\* value the non-empty one of the class.
PairLists(cls) ==
    UNION {[1..n -> Keys \X ((UserValues(cls) \ {<<>>}) \cup {None})] : n \in 0..MaxPairs}

\* The mapping the caller described after the pairs from the i-th on.
RECURSIVE ExpectFrom(_, _, _)
ExpectFrom(e, target, i) ==
    IF i > Len(target) THEN e
    ELSE ExpectFrom([e EXCEPT ![target[i][1]] = target[i][2]], target, i + 1)

\* c.populate(target)
Populate(target) ==
    /\ status = "open"
    /\ LET res == populate(Raise(cache, ""), target)
       IN  /\ cache' = res.cache
           /\ lastOp' = [op |-> "populate", pre |-> cache.opsPending,
                         target |-> target, reports |-> res.reports]
    /\ expect' = ExpectFrom(expect, target, 1)
    /\ UNCHANGED <<status, durable>>

\* A fresh store, no compression, keys of str: the loop of populate looks at
\* neither.
InitPopulate ==
    /\ \E cls \in Classes, kb \in Bases, n \in 1..MaxCommitOnNOps :
          cache = NewCache(cls,
                           [kind |-> kb[1], base |-> kb[2], connOpen |-> kb[2] = "handle",
                            db |-> EmptyStore, disk |-> EmptyStore, inTx |-> FALSE,
                            refCount |-> 0],
                           "none", n, "str")
    /\ status = "new"
    /\ expect = [k \in Keys |-> None]
    /\ lastOp = [op |-> "new", pre |-> 0]
    /\ durable = {[k \in Keys |-> None]}

NextPopulate ==
    \/ Open
    \/ \E k \in Keys : \E v \in UserValues(cache.cls) \cup {None} : Put(k, v)
    \/ \E target \in PairLists(cache.cls) : Populate(target)

SpecPopulate == InitPopulate /\ [][NextPopulate]_vars

(***************************************************************************)
(* Every call of a cache object, on a fresh store with keys of str and the *)
(* default commitOnNOps.                                                   *)
(***************************************************************************)
InitMeta ==
    /\ \E cls \in Classes, kb \in Bases, f \in Factories :
          cache = NewCache(cls,
                           [kind |-> kb[1], base |-> kb[2], connOpen |-> kb[2] = "handle",
                            db |-> EmptyStore, disk |-> EmptyStore, inTx |-> FALSE,
                            refCount |-> 0],
                           f, 1, "str")
    /\ status = "new"
    /\ expect = [k \in Keys |-> None]
    /\ lastOp = [op |-> "new", pre |-> 0]
    /\ durable = {[k \in Keys |-> None]}

\* c.populate(target), lastOp keeping the call only.
PopulateCall(target) ==
    /\ status = "open"
    /\ cache' = populate(Raise(cache, ""), target).cache
    /\ lastOp' = [op |-> "populate", pre |-> cache.opsPending]
    /\ expect' = ExpectFrom(expect, target, 1)
    /\ UNCHANGED <<status, durable>>

NextMeta ==
    \/ Open
    \/ Close
    \/ \E k \in Keys : \E v \in UserValues(cache.cls) \cup {None} : Put(k, v)
    \/ \E k \in Keys : Delete(k)
    \/ \E target \in PairLists(cache.cls) : PopulateCall(target)
    \/ Empty
    \/ Commit
    \/ Vacuum
    \/ Optimize
    \/ \E d \in Dicts : \E failAt \in 0..Cardinality(Keys) : ApplyCompressionDictionary(d, failAt)
    \/ \E d \in Dicts : \E failAt \in 0..Cardinality(Keys) : OptimizeCompression(d, failAt)

SpecMeta == InitMeta /\ [][NextMeta]_vars

(***************************************************************************)
(* The ends of a cache object: the end of the with block, __exit__ called  *)
(* again, the destructor (status "deleted": the object is gone).  lastOp   *)
(* keeps whether a warning was given.                                      *)
(***************************************************************************)
\* c.__exit__(...) at the end of the with block or called on a cache closed
\* before.
ExitScope(commitFails) ==
    /\ status \in {"open", "closed"}
    /\ commitFails => cache.backend.connOpen
    /\ cache' = exitRaising(Raise(cache, ""), commitFails)
    /\ status' = "closed"
    /\ lastOp' = [op |-> "exit", pre |-> cache.opsPending, warned |-> FALSE]
    /\ UNCHANGED <<expect, durable>>

\* del c
Del(commitFails) ==
    /\ status \in {"new", "open", "closed"}
    /\ commitFails => cache.backend.connOpen
    /\ LET r == del(cache, commitFails)
       IN  /\ cache' = r.cache
           /\ lastOp' = [op |-> "del", pre |-> cache.opsPending, warned |-> r.warned]
    /\ status' = "deleted"
    /\ UNCHANGED <<expect, durable>>

NextClose ==
    \/ Open
    \/ \E k \in Keys : \E v \in UserValues(cache.cls) \cup {None} : Put(k, v)
    \/ \E commitFails \in BOOLEAN : ExitScope(commitFails)
    \/ \E commitFails \in BOOLEAN : Del(commitFails)

SpecClose == Init /\ [][NextClose]_vars

(***************************************************************************)
(* Properties.                                                             *)
(***************************************************************************)
Present == {k \in Keys : expect[k] \notin {None, Deleted}}

Committed(b) == b.disk = WriteView(b) /\ (b.kind = "sqlite" => ~b.inTx)

\* C1: after put(k, v) with v not None (the empty value included), a close
\* and a reopen of the same store, get(k) returns v.
C1_RoundTripAfterReopen ==
    (status = "open" /\ lastOp.op = "attach")
        => \A k \in Present : getitem(cache, k) = expect[k]

\* C2: after an explicit commit() and after the scope exit nothing written
\* before is left uncommitted, for a path base and for a handle base.
C2_CommittedAfterCommitOrExit ==
    lastOp.op \in {"commit", "exit"} => Committed(cache.backend)

\* C3: every mutating operation increments opsPending, and the one that
\* brings it to commitOnNOps commits the backend and resets it to 0.
C3_CommitEveryNOps ==
    lastOp.op \in {"put", "putNone", "delete"}
        => IF lastOp.pre + 1 = cache.commitOnNOps
           THEN cache.opsPending = 0 /\ Committed(cache.backend)
           ELSE cache.opsPending = lastOp.pre + 1

\* C4: put(k, None) leaves the cache as delete(k) does (data, opsPending,
\* commits), and no row of the data table holds None.
C4_PutNoneIsDelete ==
    /\ status = "open" =>
          \A k \in Keys : setitem(cache, k, None) = delitem(cache, k)
    /\ \A r \in cache.backend.db.data.rows \cup cache.backend.disk.data.rows : r[2] # None

C4_Witness ==
    /\ status = "open"
    /\ lastOp.op = "putNone"
    /\ lastOp.pre > 0
    /\ cache.opsPending = 0
    /\ Present # {}

\* C5: a key put with a value and then deleted is not contained and reads
\* None, in the same cache and in a cache opened afterwards.
C5_DeletedIsGone ==
    status = "open" =>
        \A k \in Keys : expect[k] = Deleted
            => ~contains(cache, k) /\ getitem(cache, k) = None

C5_Witness ==
    /\ status = "open"
    /\ lastOp.op = "attach"
    /\ \E k \in Keys : expect[k] = Deleted

\* C6: keys() yields exactly the keys whose last assignment was not None and
\* that were not deleted since, each once; len is their number; a put of a
\* present key keeps len and a put of a new key raises it by one.
C6_KeysAndLen ==
    status = "open" =>
        /\ keys(cache) = [k \in Present |-> 1]
        /\ len(cache) = Cardinality(Present)
        /\ \A k \in Keys : \A v \in UserValues(cache.cls) :
              len(setitem(cache, k, v)) = len(cache) + (IF k \in Present THEN 0 ELSE 1)

C6_Witness ==
    /\ status = "open"
    /\ lastOp.op = "put"
    /\ Cardinality(Present) = 1
    /\ \E k \in Keys : expect[k] = Deleted

\* C7: when the re-encoding step of applyCompressionDictionary fails, the
\* stored values and the metadata are what they were before the call.
C7_FailedRecompressLeavesStore ==
    [][(lastOp'.op = "apply" /\ cache'.raised \in {"OperationalError", "RecompressError"})
          => /\ cache'.backend.disk = cache.backend.disk
             /\ WriteView(cache'.backend) = WriteView(cache.backend)]_vars

\* C8: after optimizeCompression() completes, values() yields the values
\* present before the call (same rows) and metadata dict is not empty.
C8_OptimizeKeepsValues ==
    [][(lastOp'.op = "optimize" /\ cache'.raised = "")
          => /\ values(cache') = values(cache)
             /\ len(cache') = len(cache)
             /\ compressionDictionary(cache') \notin {None, <<>>}]_vars

C8_Witness ==
    /\ status = "open"
    /\ lastOp.op = "optimize"
    /\ cache.raised = ""
    /\ len(cache) = 2
    /\ compressionDictionary(cache) # None

\* C9: the open of a store whose metadata holds a dictionary succeeds and
\* builds the compressor from that dictionary, so that the values written
\* under it read back equal.
C9_AttachWithDictionary ==
    (lastOp.op = "attach" /\ compressionDictionary(cache) # None)
        => /\ status = "open"
           /\ cache.compressor = BuildCompressor(cache.compressorFactory,
                                                 compressionDictionary(cache))
           /\ \A k \in Present : getitem(cache, k) = expect[k]

\* C10: applyCompressionDictionary(d) with d the dictionary in metadata
\* changes nothing: no transaction, no write, the compressors and
\* opsPending as they were.
C10_ApplySameDictIsNoOp ==
    status = "open" =>
        \A d \in Dicts : \A failAt \in 0..Cardinality(Keys) :
            compressionDictionary(cache) = d
                => applyCompressionDictionary(Raise(cache, ""), d, failAt) = Raise(cache, "")

C10_Witness ==
    /\ status = "open"
    /\ lastOp.op = "applySame"
    /\ cache.opsPending > 0
    /\ len(cache) > 0

\* C11: the open of an initialized store by a class whose transformers id
\* differs from the persisted serializers fails with the transformers
\* ValueError and leaves the data and metadata tables as they were.
C11_IncompatibleCodecs ==
    [][(lastOp'.op = "attach"
          /\ StoreAtOpen(cache.backend).meta.serializers # transformersId(cache'.cls))
          => /\ status' = "failed"
             /\ cache'.raised = "ValueError: transformers"
             /\ cache'.backend.disk = cache.backend.disk
             /\ cache'.backend.db = cache.backend.db]_vars

C11_Witness ==
    /\ status = "failed"
    /\ lastOp.op = "attach"
    /\ cache.raised = "ValueError: transformers"
    /\ cache.backend.disk.data.rows # {}

C13_CompressionMismatchFails ==
    (lastOp.op = "attach" /\ lastOp.factory # ReadView(cache.backend).meta.compression)
        => status = "failed"

\* What the committed store holds for the keys, read by the store's own
\* metadata (its compression id and dictionary) and the cache's class.
DiskMapping ==
    LET st == cache.backend.disk
        c == IF st.meta.compression \in {"", "none"} THEN None
             ELSE BuildCompressor(st.meta.compression, st.meta.dict)
        dec(val) == LET v1 == IF c # None THEN Decompress(c, val) ELSE val
                    IN  IF v1 = Error THEN Error ELSE transformersProcess(cache.cls, v1)
    IN  [k \in Keys |->
            LET val == TableGetItem(st.data.rows, RawKey(cache, k))
            IN  IF val = None THEN None ELSE dec(val)]

\* C14: at every point the committed store holds the mapping given by a
\* program-order prefix of the mutating calls that includes every call made
\* before the last commit (commit(), the commit of a batch, the scope exit).
C14_CrashKeepsCommittedPrefix == DiskMapping \in durable

\* C15: when the with block is left by an exception after mutating calls
\* (opsPending > 0), the exit commits them and closes the backend: nothing
\* is left uncommitted or rolled back, and the engine handle is closed.
C15_ExitOnErrorCommitsAndCloses ==
    (lastOp.op = "exitOnError" /\ lastOp.pre > 0)
        => /\ Committed(cache.backend)
           /\ DiskMapping = Norm(expect)
           /\ ~cache.backend.connOpen

\* C16: empty() leaves no row in the data table (len 0, every key reads
\* None), the data table there with the key type it had, everything
\* committed and opsPending 0, and the metadata records as they were.
C16_EmptyKeepsMetadata ==
    [][lastOp'.op = "empty"
          => /\ cache'.raised = ""
             /\ len(cache') = 0
             /\ \A k \in Keys : getitem(cache', k) = None
             /\ cache'.backend.disk.data =
                   [exists |-> TRUE, keyType |-> WriteView(cache.backend).data.keyType,
                    rows |-> {}]
             /\ cache'.opsPending = 0
             /\ Committed(cache'.backend)
             /\ cache'.backend.disk.meta = WriteView(cache.backend).meta]_vars

C16_Witness ==
    /\ lastOp.op = "empty"
    /\ lastOp.pre > 0
    /\ lastOp.len = 2
    /\ compressionDictionary(cache) # None

\* C17: the open of a store without a metadata table initializes it: it
\* writes compression (the factory id, or "none") and serializers (the
\* class's transformers id), creates the empty data table with the declared
\* key type (bytes for typing.Any) and commits, leaving opsPending 0 and a
\* compressor built without a dictionary; a store once initialized stays so,
\* and no later open of it initializes again.
C17_InitializationPath ==
    [][/\ lastOp'.op = "init"
            => /\ ~cache.backend.disk.meta.exists
               /\ status' = "open"
               /\ cache'.backend.disk =
                     [meta |-> [exists |-> TRUE, compression |-> lastOp'.factory,
                                serializers |-> transformersId(cache'.cls), dict |-> None],
                      data |-> [exists |-> TRUE,
                                keyType |-> IF cache'.keyType = "any" THEN "bytes"
                                            ELSE cache'.keyType,
                                rows |-> {}]]
               /\ Committed(cache'.backend)
               /\ cache'.opsPending = 0
               /\ cache'.compressor =
                     IF lastOp'.factory = "none" THEN None
                     ELSE BuildCompressor(lastOp'.factory, None)
       /\ cache.backend.disk.meta.exists
            => /\ cache'.backend.disk.meta.exists
               /\ lastOp'.op # "init"]_vars

C17_Witness ==
    /\ status = "open"
    /\ lastOp.op = "attach"
    /\ cache.keyType = "any"
    /\ cache.compressor = BuildCompressor("zstd", None)
    /\ cache.backend.disk.data.rows # {}

\* C18: optimizeCompression() of a cache without a compressor, or with one
\* that does not support dictionaries, raises NotImplementedError and
\* changes nothing: the backend (no commit, no write), opsPending and both
\* compressor slots are as before the call.
C18_OptimizeUnsupported ==
    [][(lastOp'.op = "optimize"
          /\ (cache.compressor = None \/ ~supportsDicts(cache.compressor)))
          => /\ cache'.raised = "NotImplementedError"
             /\ cache'.backend = cache.backend
             /\ cache'.opsPending = cache.opsPending
             /\ cache'.compressor = cache.compressor
             /\ cache'.newCompressor = cache.newCompressor]_vars

C18_Witness ==
    /\ lastOp.op = "optimize"
    /\ cache.raised = "NotImplementedError"
    /\ cache.compressor # None
    /\ cache.opsPending > 0
    /\ ~Committed(cache.backend)

\* C19: the construction of a cache of any class selects the backend by the
\* extension of the path (sqlite or mdb, in any case) or by the type of the
\* handle, and fails with the ValueError for bad bases for every other base.
C19_BackendSelection ==
    lastOp.op = "construct"
        => IF lastOp.base.selects = "none"
           THEN status = "badbase" /\ cache.raised = "ValueError"
           ELSE /\ status = "new"
                /\ cache.backend.kind = lastOp.base.selects
                /\ cache.backend.base =
                      IF lastOp.base.type \in {"str", "Path"} THEN "path" ELSE "handle"

\* C20 as claimed: from any state, put(k, v) with v not None followed by
\* put(k, None) leaves k not contained and len what it was before the two.
C20_PutThenPutNoneKeepsLen ==
    status = "open" =>
        \A k \in Keys : \A v \in UserValues(cache.cls) :
            LET s2 == setitem(setitem(Raise(cache, ""), k, v), k, None)
            IN  ~contains(s2, k) /\ len(s2) = len(cache)

\* C20 amended: put(k, v) with v not None followed by put(k, None) leaves k
\* not contained, and len what it was before the two when k had no row then,
\* one less when it had.
C20_PutThenPutNoneRemovesRow ==
    status = "open" =>
        \A k \in Keys : \A v \in UserValues(cache.cls) :
            LET s2 == setitem(setitem(Raise(cache, ""), k, v), k, None)
            IN  /\ ~contains(s2, k)
                /\ getitem(s2, k) = None
                /\ len(s2) = len(cache) - (IF k \in Present THEN 1 ELSE 0)

C20_Witness ==
    /\ status = "open"
    /\ lastOp.op = "putNone"
    /\ lastOp.pre = 1
    /\ Cardinality(Present) = 1
    /\ len(cache) = 1

\* C21: between the calls, also after an applyCompressionDictionary that
\* raised, newCompressor is None.
C21_NewCompressorNoneOutsideSwap ==
    status \in {"open", "closed"} => cache.newCompressor = None

\* The compressor the committed metadata describe: the factory of its
\* compression id with its dict, None for no compression.
DiskCompressor ==
    LET m == cache.backend.disk.meta
    IN  IF m.compression \in {"", "none"} THEN None
        ELSE BuildCompressor(m.compression, m.dict)

\* C22: in every committed state of the store every value of the data table
\* reads with the compressor of the committed metadata (its compression id
\* and its dict).
C22_CommittedValuesMatchDict ==
    DiskCompressor # None
        => \A r \in cache.backend.disk.data.rows : Decompress(DiskCompressor, r[2]) # Error

\* C23: opsPending is never negative and never more than commitOnNOps.
C23_OpsPendingBounded ==
    /\ cache.opsPending >= 0
    /\ cache.opsPending <= cache.commitOnNOps

C23_Witness ==
    /\ status = "open"
    /\ cache.commitOnNOps = MaxCommitOnNOps
    /\ cache.opsPending = cache.commitOnNOps
    /\ lastOp.op = "delete"

\* C24: on the SQLite backend, between the calls of a cache object opened on
\* the store (a handle another cache object used before included),
\* opsPending = 0 means that nothing written is uncommitted.
C24_NoPendingMeansCommitted ==
    (/\ cache.backend.kind = "sqlite"
     /\ status = "open"
     /\ lastOp.op \in {"init", "attach", "put", "putNone", "delete", "commit"}
     /\ cache.opsPending = 0)
        => cache.backend.db = cache.backend.disk

\* C25: commit() leaves opsPending = 0; vacuum() and optimize() commit what
\* is pending when opsPending > 0 and leave the rows (keys, values, len) and
\* the metadata records as they were.
C25_CommitResetsMaintenanceKeeps ==
    [][/\ lastOp'.op = "commit" => cache'.opsPending = 0
       /\ lastOp'.op \in {"vacuum", "optimizeBackend"}
            => /\ cache.opsPending > 0
                    => /\ cache'.opsPending = 0
                       /\ Committed(cache'.backend)
                       /\ cache'.raised = ""
               /\ WriteView(cache'.backend) = WriteView(cache.backend)
               /\ ReadView(cache'.backend) = ReadView(cache.backend)
               /\ len(cache') = len(cache)
               /\ keys(cache') = keys(cache)
               /\ values(cache') = values(cache)]_vars

C25_Witness ==
    /\ lastOp.op = "vacuum"
    /\ lastOp.pre > 0
    /\ cache.backend.kind = "sqlite"
    /\ cache.raised = ""
    /\ Present # {}
    /\ len(cache) > 0

\* C26: del c[k] of an absent key raises nothing and leaves the data table
\* as it is; a second del c[k] leaves the data of the first; each of them,
\* the row present or absent, counts as one operation, as a put does.
C26_DeleteIdempotent ==
    status = "open"
        => \A k \in Keys :
             LET s == Raise(cache, "")
                 d1 == delitem(s, k)
                 d2 == delitem(d1, k)
                 absent == TableGetItem(WriteView(s.backend).data.rows, RawKey(s, k)) = None
             IN  /\ d1.raised = "" /\ d2.raised = ""
                 /\ absent => WriteView(d1.backend) = WriteView(s.backend)
                 /\ WriteView(d2.backend) = WriteView(d1.backend)
                 /\ TableGetItem(WriteView(d1.backend).data.rows, RawKey(s, k)) = None
                 /\ d1.opsPending = opCommit(s).opsPending
                 /\ d2.opsPending = opCommit(opCommit(s)).opsPending
                 /\ (~willCommit(s)) => d1.opsPending = s.opsPending + 1

C26_Witness ==
    /\ status = "open"
    /\ lastOp.op = "delete"
    /\ lastOp.pre > 0
    /\ cache.opsPending = lastOp.pre + 1
    /\ \A k \in Keys : expect[k] = None
    /\ len(cache) = 0

\* C27: in a nesting of scopes of the shared write transaction a
\* transaction is begun exactly when the count goes from 0 to 1, it ends and
\* the store changes only when the count goes from 1 to 0, and entering or
\* leaving an inner scope keeps the transaction and commits nothing.
C27_OneTransactionPerNesting ==
    [][(status = "open" /\ status' = "open")
        => LET b == cache.backend
               b2 == cache'.backend
           IN  /\ (~b.inTx /\ b2.inTx) <=> (b.refCount = 0 /\ b2.refCount = 1)
               /\ (b.inTx /\ ~b2.inTx) <=> (b.refCount = 1 /\ b2.refCount = 0)
               /\ b2.disk # b.disk => (b.refCount = 1 /\ b2.refCount = 0 /\ b2.disk = b.db)
               /\ (b.refCount > 0 /\ b2.refCount > b.refCount)
                    => (b2.inTx /\ b2.db = b.db /\ b2.disk = b.disk)
               /\ (b2.refCount > 0 /\ b2.refCount < b.refCount)
                    => (b2.inTx /\ b2.db = b.db /\ b2.disk = b.disk)]_vars

C27_Witness ==
    /\ status = "open"
    /\ lastOp.op = "txExit"
    /\ lastOp.pre = 2
    /\ cache.backend.refCount = 1
    /\ cache.backend.inTx
    /\ cache.backend.db # cache.backend.disk

\* C28: from the open of an LMDB backend to its close the count of the
\* shared write transaction is not negative, and a transaction is open
\* exactly when the count is positive.
C28_CountMatchesTransaction ==
    (cache.backend.kind = "lmdb" /\ status \in {"open", "closed"})
        => /\ cache.backend.refCount >= 0
           /\ cache.backend.inTx <=> cache.backend.refCount > 0

\* C29: with keyType typing.Any the data table holds every present key once,
\* encoded by the transformers stack, in a key column of bytes; keys() gives
\* back the keys the caller used, and the lookup of a key put finds its row.
C29_AnyKeysThroughStack ==
    (status = "open" /\ cache.keyType = "any")
        => LET data == ReadView(cache.backend).data
           IN  /\ data.keyType = "bytes"
               /\ {r[1] : r \in data.rows} = {transformersUnprocess(cache.cls, k) : k \in Present}
               /\ keys(cache) = [k \in Present |-> 1]
               /\ \A k \in Keys :
                    (TableGetItem(data.rows, RawKey(cache, k)) # None) <=> k \in Present

C29_Witness ==
    /\ status = "open"
    /\ cache.keyType = "any"
    /\ lastOp.op = "putNone"
    /\ lastOp.pre > 0
    /\ Cardinality(Present) = 1
    /\ len(cache) = 1

\* The calls c[k] = v for the pairs in order.
RECURSIVE PutEach(_, _)
PutEach(s, pairs) ==
    IF pairs = <<>> THEN s
    ELSE PutEach(setitem(s, Head(pairs)[1], Head(pairs)[2]), Tail(pairs))

\* C30: populate(pairs) leaves the cache object and the store as the puts of
\* the pairs in order do, and the reporter hears of every pair once, in
\* order, after the put of the pair.
C30_PopulateIsPutEach ==
    [][lastOp'.op = "populate"
        => /\ cache' = PutEach(Raise(cache, ""), lastOp'.target)
           /\ Len(lastOp'.reports) = Len(lastOp'.target)
           /\ \A i \in 1..Len(lastOp'.target) :
                lastOp'.reports[i] = [key |-> lastOp'.target[i][1], puts |-> i]]_vars

C30_Witness ==
    /\ lastOp.op = "populate"
    /\ Len(lastOp.target) = MaxPairs
    /\ lastOp.target[1][2] = None
    /\ lastOp.target[2][2] # None
    /\ lastOp.pre > 0
    /\ Present # {}

\* C31: once the metadata table exists, no call changes its compression and
\* serializers records, in the view of the connection and in the committed
\* store, and the dict record changes only in an applyCompressionDictionary
\* (called directly or by optimizeCompression) that did not raise.
C31_MetadataRecordsKept ==
    [][LET m == ReadView(cache.backend).meta
           m2 == ReadView(cache'.backend).meta
           d == cache.backend.disk.meta
           d2 == cache'.backend.disk.meta
       IN  /\ m.exists
                => /\ m2.exists
                   /\ m2.compression = m.compression
                   /\ m2.serializers = m.serializers
                   /\ m2.dict # m.dict
                        => (lastOp'.op \in {"apply", "optimize"} /\ cache'.raised = "")
           /\ d.exists
                => /\ d2.exists
                   /\ d2.compression = d.compression
                   /\ d2.serializers = d.serializers
                   /\ d2.dict # d.dict
                        => (lastOp'.op \in {"apply", "optimize"} /\ cache'.raised = "")]_vars

C31_Witness ==
    /\ status = "open"
    /\ lastOp.op = "empty"
    /\ ReadView(cache.backend).meta.exists
    /\ ReadView(cache.backend).meta.dict # None
    /\ cache.backend.disk.meta.compression = "zstd"

\* C32: an error raised while the cache is closed, at the end of the with
\* block as in the destructor, does not reach the caller.
C32_CloseRaisesNothing ==
    lastOp.op \in {"exit", "del"} => cache.raised = ""

====
